---- MODULE Spec2Model ----
(***************************************************************************)
(* Instance lifecycle manager of waapi (instanceManager.js) and the send   *)
(* routes of app.js.  Node runs every handler to its next await on one     *)
(* thread, so an action is one synchronous run of a handler or of a        *)
(* continuation: from the event that wakes it to the next await that       *)
(* really suspends (a timer, the external client, the operating system).   *)
(***************************************************************************)
EXTENDS Integers, Sequences, FiniteSets, TLC

\* ---------------------------------------------------------------- bounds
MaxClients == 2       \* handles that `new Client` may construct
MaxOps == 3           \* calls of enqueue
MaxRestarts == 2      \* calls of restartInstance
MaxResets == 1        \* resetInstance calls where the client emits events
MaxReqs == 1          \* HTTP send requests
MaxRetriesBound == 5  \* largest maxRetries tried on removeFolderWithRetries
MaxDelayTicks == 2    \* largest delayMs tried, in ticks
TickMs == 1000        \* granularity of the clock
MaxLogouts == 1       \* calls of logoutInstance
MaxScans == 1         \* runs of the memory cleanup interval

\* ------------------------------------------------------ program constants
CooldownMs == 500          \* await delay(500) in processQueue
DefaultMaxRetries == 5     \* removeFolderWithRetries default maxRetries
DefaultDelayMs == 1000     \* removeFolderWithRetries default delayMs

\* ------------------------------------------------------------- JS values
Ids == {"a", "b"}          \* instance ids (non-empty strings)
Ghost == "ghost"           \* an id that is never created
Strings == Ids \cup {Ghost}
Undefined == "undefined"   \* the JS value undefined
Null == "null"             \* the JS value null
NoClient == 0              \* Map.get() of an absent key
EmptyObject == [f \in {} |-> Undefined]   \* the object literal {}
\* client.info as the external client sets it once authenticated
Identity == [wid |-> "wid", number |-> "123", pushname |-> "name",
             profile_pic |-> "pic"]

Min(x, y) == IF x < y THEN x ELSE y
Max(x, y) == IF x > y THEN x ELSE y

\* obj.f of a JS object: undefined when the object has no such property
Prop(obj, f) == IF f \in DOMAIN obj THEN obj[f] ELSE Undefined

\* Map.get / Map.has / Map.delete / Map.set; keys outside Ids are never stored
MapGet(m, k) == IF k \in DOMAIN m THEN m[k] ELSE NoClient
MapHas(m, k) == MapGet(m, k) # NoClient
MapDelete(m, k) == IF k \in DOMAIN m THEN [m EXCEPT ![k] = NoClient] ELSE m
MapSet(m, k, v) == [m EXCEPT ![k] = v]

VARIABLES
  instances,      \* Map id -> client handle (0 when absent)
  qrCodes,        \* Map id -> qr token (0 when absent)
  instanceQueue,  \* queued entries, each the index of its promise in ops
  queueRunning,   \* re-entrancy flag of processQueue
  clients,        \* the Client objects constructed so far
  ops,            \* one record per enqueue call: its fn and its promise
  loops,          \* the processQueue invocations that are past the guard
  restarts,       \* one record per restartInstance call
  reqs,           \* one record per HTTP send request
  lastCall,       \* the last synchronous API call and what it returned
  rm,             \* a stand-alone call of removeFolderWithRetries
  sinceDone,      \* ms since a queued fn last finished (saturates)
  initCount,      \* per id: initialize() calls since the id was last removed
  retHandles,     \* per id: handles handed out by createInstance since then
  unhandled,      \* promise rejections that no handler was attached to
  logouts,        \* one record per logoutInstance call
  disk,           \* the directories that exist under APP_ROOT
  host,           \* what os-utils reports: CPU load and free memory
  admission,      \* a call of canCreateInstance
  lastScan,       \* the last run of the memory cleanup interval
  enqueuedAt      \* per enqueue call that is observed: where the drain loop was

vars == <<instances, qrCodes, instanceQueue, queueRunning, clients, ops,
          loops, restarts, reqs, lastCall, rm, sinceDone, initCount,
          retHandles, unhandled, logouts, disk, host, admission, lastScan,
          enqueuedAt>>

\* The whole state as one record, so that a synchronous chain of calls
\* can be written as a composition of functions on it.
Cur == [instances |-> instances, qrCodes |-> qrCodes,
        instanceQueue |-> instanceQueue, queueRunning |-> queueRunning,
        clients |-> clients, ops |-> ops, loops |-> loops,
        restarts |-> restarts, reqs |-> reqs, lastCall |-> lastCall,
        rm |-> rm, sinceDone |-> sinceDone, initCount |-> initCount,
        retHandles |-> retHandles, unhandled |-> unhandled,
        logouts |-> logouts, disk |-> disk, host |-> host,
        admission |-> admission, lastScan |-> lastScan,
        enqueuedAt |-> enqueuedAt]

Apply(S) ==
  \E T \in {S} :
    /\ instances' = T.instances
    /\ qrCodes' = T.qrCodes
    /\ instanceQueue' = T.instanceQueue
    /\ queueRunning' = T.queueRunning
    /\ clients' = T.clients
    /\ ops' = T.ops
    /\ loops' = T.loops
    /\ restarts' = T.restarts
    /\ reqs' = T.reqs
    /\ lastCall' = T.lastCall
    /\ rm' = T.rm
    /\ sinceDone' = T.sinceDone
    /\ initCount' = T.initCount
    /\ retHandles' = T.retHandles
    /\ unhandled' = T.unhandled
    /\ logouts' = T.logouts
    /\ disk' = T.disk
    /\ host' = T.host
    /\ admission' = T.admission
    /\ lastScan' = T.lastScan
    /\ enqueuedAt' = T.enqueuedAt

NoCall == [op |-> "none", id |-> Undefined, present |-> FALSE,
           result |-> Undefined, changed |-> FALSE]
NoRm == [pc |-> "none", maxRetries |-> 0, delayMs |-> 0, attempts |-> 0,
         left |-> 0, elapsed |-> 0, tries |-> 0, spaced |-> TRUE,
         lastOk |-> FALSE, result |-> Undefined]

\* path.join, on paths written as the sequences of their segments
PathJoin(dir, name) == Append(dir, name)

\* SESSIONS_PATH and CHROME_PROFILES_PATH, relative to APP_ROOT
SESSIONS_PATH == <<".wwebjs_auth">>
CHROME_PROFILES_PATH == PathJoin(SESSIONS_PATH, "_chrome_profiles")

\* ensureDir(SESSIONS_PATH); ensureDir(CHROME_PROFILES_PATH);
InitDisk == {SESSIONS_PATH, CHROME_PROFILES_PATH}

\* The directory LocalAuth keeps the credentials of clientId in: the
\* folder session-<clientId> of its dataPath.
SessionName(clientId) ==
  CASE clientId = "a" -> "session-a"
    [] clientId = "b" -> "session-b"
    [] OTHER -> "session-"
LocalAuthDir(dataPath, clientId) == PathJoin(dataPath, SessionName(clientId))

\* new LocalAuth({ clientId: id, dataPath: SESSIONS_PATH })
SessionDir(id) == LocalAuthDir(SESSIONS_PATH, id)

\* path.join(CHROME_PROFILES_PATH, instanceId)
profilePath(instanceId) == PathJoin(CHROME_PROFILES_PATH, instanceId)

IsUnder(p, dir) ==
  Len(p) >= Len(dir) /\ SubSeq(p, 1, Len(dir)) = dir

\* if (fs.existsSync(folderPath)) fs.rmSync(folderPath, { recursive: true })
rmSync(d, folderPath) == {p \in d : ~IsUnder(p, folderPath)}

\* os.totalmem() in memory units, and the host at rest
TotalMem == 200
InitHost == [cpu |-> 50, freeMem |-> 100]

NoAdmission == [pc |-> "none", maxCpu |-> 0, maxRamPercent |-> 0,
                cpu |-> 0, freeMem |-> 0, result |-> Undefined]
NoScan == [n |-> 0, freeMem |-> 0, idle |-> {}, withWid |-> {},
           reset |-> {}, count |-> 0]

Init ==
  /\ instances = [i \in Ids |-> NoClient]
  /\ qrCodes = [i \in Ids |-> NoClient]
  /\ instanceQueue = << >>
  /\ queueRunning = FALSE
  /\ clients = << >>
  /\ ops = << >>
  /\ loops = {}
  /\ restarts = << >>
  /\ reqs = << >>
  /\ lastCall = NoCall
  /\ rm = NoRm
  /\ sinceDone = CooldownMs   \* no fn has finished: nothing to wait for
  /\ initCount = [i \in Ids |-> 0]
  /\ retHandles = [i \in Ids |-> {}]
  /\ unhandled = 0
  /\ logouts = << >>
  /\ disk = InitDisk
  /\ host = InitHost
  /\ admission = NoAdmission
  /\ lastScan = NoScan
  /\ enqueuedAt = << >>

\* ------------------------------------------------------------ bookkeeping
Indices(seq) == 1..Len(seq)

\* History: id leaves the registry (instances.delete of a present key).
Forget(S, id) ==
  IF MapHas(S.instances, id)
  THEN [S EXCEPT !.initCount[id] = 0, !.retHandles[id] = {}]
  ELSE S

\* History: a write of id into one of the maps while a queued reset of id
\* is between its deregistration and the settling of its promise.
Disturb(S, id) ==
  [S EXCEPT !.ops = [k \in Indices(S.ops) |->
     IF S.ops[k].id = id /\ S.ops[k].fn = "running" /\ S.ops[k].dereg
     THEN [S.ops[k] EXCEPT !.disturbed = TRUE] ELSE S.ops[k]]]

\* instances.delete(id); qrCodes.delete(id);
Deregister(S, id) ==
  [Forget(S, id) EXCEPT !.instances = MapDelete(S.instances, id),
                        !.qrCodes = MapDelete(S.qrCodes, id)]

\* ---------------------------------------------------------- HTTP replies
RestartedReply == [status |-> 503, error |-> "Instance restarted",
                   details |-> Undefined]
RestartFailedReply(msg) == [status |-> 500, error |-> "Failed to restart",
                            details |-> msg]

\* restartInstance returns (or throws) to whoever awaits it; the media
\* route answers its request.
FinishRestart(S, r, stage) ==
  LET q == S.restarts[r].req
      S1 == [S EXCEPT !.restarts[r].stage = stage]
  IN IF q = 0 THEN S1
     ELSE [S1 EXCEPT !.reqs[q].stage = "done",
                     !.reqs[q].reply =
                        IF stage = "done" THEN RestartedReply
                        ELSE RestartFailedReply(<<"TypeError">>)]

\* -------------------------------------------------------- createInstance
NewClient(id, r) ==
  [id |-> id, init |-> "pending", lib |-> "started", info |-> {},
   isInitializing |-> TRUE, destroyed |-> "no", restart |-> r]

\* createInstance(id) up to `await client.initialize()`; r is the
\* restartInstance call that awaits it (0: some other caller)
createInstance(S, id, r) ==
  IF MapHas(S.instances, id)
  THEN LET h == MapGet(S.instances, id)
           S1 == [S EXCEPT !.retHandles[id] = @ \cup {h}]
       IN IF r = 0 THEN S1 ELSE FinishRestart(S1, r, "done")
  ELSE LET c == Len(S.clients) + 1
       IN [S EXCEPT !.clients = Append(@, NewClient(id, r)),
                    !.initCount[id] = @ + 1,
                    !.retHandles[id] = @ \cup {c}]

\* the rest of createInstance, once initialize() has settled
createInstanceResume(S, c, ok) ==
  LET id == S.clients[c].id
      r == S.clients[c].restart
      S1 == IF ok THEN [S EXCEPT !.disk = @ \cup {SessionDir(id)}]
            ELSE Deregister(S, id)
      S2 == [Disturb(S1, id) EXCEPT
               !.instances = MapSet(S1.instances, id, c),
               !.clients[c].init = IF ok THEN "ok" ELSE "threw"]
  IN IF r = 0 THEN S2 ELSE FinishRestart(S2, r, "done")

\* clients that a restartInstance call still has to construct
Reserved == Cardinality({r \in Indices(restarts) :
                           restarts[r].stage = "reset"})
            + Cardinality({q \in Indices(reqs) :
                             reqs[q].route = "send-media"
                             /\ reqs[q].stage = "sending"})

CreateCall(id) ==
  /\ MapHas(instances, id) \/ Len(clients) + Reserved < MaxClients
  /\ Apply(createInstance(Cur, id, 0))

InitializeDone(c, ok) ==
  /\ clients[c].init = "pending"
  /\ Apply(createInstanceResume(Cur, c, ok))

\* ------------------------------------------ events of the external client
Emits(c) == clients[c].destroyed # "done" /\ clients[c].lib # "closed"

EvQr(c) ==
  /\ Emits(c) /\ clients[c].lib \in {"started", "qr"}
  /\ LET id == clients[c].id
     IN Apply([Disturb(Cur, id) EXCEPT
                 !.qrCodes = MapSet(qrCodes, id, c),
                 !.clients[c].lib = "qr"])

EvAuthenticated(c) ==
  /\ Emits(c) /\ clients[c].lib \in {"started", "qr"}
  /\ Apply([Cur EXCEPT !.clients[c].lib = "authenticated"])

EvReady(c) ==
  /\ Emits(c) /\ clients[c].lib = "authenticated"
  /\ Apply([Cur EXCEPT !.clients[c].lib = "ready",
                       !.clients[c].info = {Identity},
                       !.clients[c].isInitializing = FALSE])

EvDisconnected(c) ==
  /\ Emits(c) /\ clients[c].lib \in {"qr", "authenticated", "ready"}
  /\ Apply([Deregister(Cur, clients[c].id) EXCEPT
              !.clients[c].lib = "closed"])

EvAuthFailure(c) ==
  /\ Emits(c) /\ clients[c].lib = "started"
  /\ Apply([Deregister(Cur, clients[c].id) EXCEPT
              !.clients[c].lib = "closed"])

\* --------------------------------------------- removeFolderWithRetries
\* One pass of `while (attempts < maxRetries)`: ok says whether
\* existsSync/rmSync got through without throwing.  ret is "true" or
\* "false" when the function returns, "await" when it reaches
\* `await delay(delayMs)`; tried says whether a deletion was attempted.
removeFolderWithRetriesOneMore(attempts, maxRetries, ok) ==
  IF ~(attempts <= maxRetries)
  THEN [ret |-> "false", attempts |-> attempts, tried |-> FALSE]
  ELSE IF ok
  THEN [ret |-> "true", attempts |-> attempts, tried |-> TRUE]
  ELSE IF attempts + 1 > maxRetries
  THEN [ret |-> "false", attempts |-> attempts + 1, tried |-> TRUE]
  ELSE [ret |-> "await", attempts |-> attempts + 1, tried |-> TRUE]
removeFolderWithRetries(attempts, maxRetries, ok) ==
  IF ~(attempts < maxRetries)
  THEN [ret |-> "false", attempts |-> attempts, tried |-> FALSE]
  ELSE IF ok
  THEN [ret |-> "true", attempts |-> attempts, tried |-> TRUE]
  ELSE IF attempts + 1 >= maxRetries
  THEN [ret |-> "false", attempts |-> attempts + 1, tried |-> TRUE]
  ELSE [ret |-> "await", attempts |-> attempts + 1, tried |-> TRUE]

\* ------------------------------------------------- the Operation Queue
NewOp(id, r) ==
  [id |-> id, restart |-> r, fn |-> "queued", promise |-> "pending",
   gap |-> 0, dereg |-> FALSE, disturbed |-> FALSE, absent |-> FALSE]

NewLoop(k) == [pc |-> "fn", cur |-> k, client |-> NoClient,
               attempts |-> 0, left |-> 0, removed |-> FALSE]

\* `await delay(500)` after the try/catch of processQueue, whatever the
\* outcome of fn was
CooldownDelaySkippedOnError(outcome) ==
  IF outcome = "threw" THEN 0 ELSE CooldownMs
CooldownDelay(outcome) == CooldownMs

\* path.join(CHROME_PROFILES_PATH, instanceId) throws a TypeError
\* unless instanceId is a string
PathJoinThrows(id) == id \notin Strings

\* try { resolve(await fn()) } catch (err) { reject(err) }
Settle(outcome) == IF outcome = "threw" THEN "rejected" ELSE "resolved"

\* the drain loop after the try/catch: it goes on to the delay whether fn
\* returned or threw
LoopAfterFnAbortsOnError(L, outcome, removed) ==
  IF outcome = "threw" THEN {}
  ELSE {[L EXCEPT !.pc = "cooldown", !.attempts = 0, !.removed = removed,
                  !.left = CooldownDelay(outcome)]}
LoopAfterFn(L, outcome, removed) ==
  {[L EXCEPT !.pc = "cooldown", !.attempts = 0, !.removed = removed,
             !.left = CooldownDelay(outcome)]}

\* fn has returned or thrown: processQueue settles the promise and goes
\* to `await delay(500)`; whoever awaits the promise continues
fnDone(S, L, outcome, removed) ==
  LET k == L.cur
      id == S.ops[k].id
      r == S.ops[k].restart
      S1 == [S EXCEPT
               !.ops[k].fn = outcome,
               !.ops[k].promise = Settle(outcome),
               !.ops[k].absent = ~MapHas(S.instances, id)
                                 /\ ~MapHas(S.qrCodes, id),
               !.sinceDone = 0,
               !.loops = @ \cup LoopAfterFn(L, outcome, removed)]
  IN IF r = 0 THEN S1
     ELSE IF outcome = "returned"
     THEN createInstance([S1 EXCEPT !.restarts[r].stage = "create"], id, r)
     ELSE FinishRestart(S1, r, "failed")

\* await removeFolderWithRetries(profilePath); execSync(pkill) in its try
resetRemove(S, L, rmOk) ==
  LET res == removeFolderWithRetries(L.attempts, DefaultMaxRetries, rmOk)
  IN IF res.ret = "await"
     THEN [S EXCEPT !.loops = @ \cup {[L EXCEPT !.pc = "retry",
                                                !.attempts = res.attempts,
                                                !.left = DefaultDelayMs]}]
     ELSE fnDone(IF res.ret = "true"
                 THEN [S EXCEPT !.disk = rmSync(@, profilePath(S.ops[L.cur].id))]
                 ELSE S,
                 L, "returned", res.ret = "true")

\* qrCodes.delete(instanceId); path.join(...); removal of the profile dir
resetClearQr(S, L, rmOk) ==
  LET k == L.cur
      id == S.ops[k].id
      S1 == [S EXCEPT !.qrCodes = MapDelete(S.qrCodes, id),
                      !.ops[k].dereg = TRUE]
  IN IF PathJoinThrows(id) THEN fnDone(S1, L, "threw", FALSE)
     ELSE resetRemove(S1, L, rmOk)

\* the queued function of resetInstance, up to `await client.destroy()`
resetFn(S, L, rmOk) ==
  LET id == S.ops[L.cur].id
      client == MapGet(S.instances, id)
  IN IF client # NoClient
     THEN [S EXCEPT !.clients[client].destroyed = "requested",
                    !.loops = @ \cup {[L EXCEPT !.pc = "destroy",
                                                !.client = client]}]
     ELSE resetClearQr(S, L, rmOk)

\* ... and from the settling of client.destroy() on: the catch swallows
\* a failure, then instances.delete(instanceId)
resetAfterDestroyKeepsOnError(S, L, destroyOk, rmOk) ==
  LET k == L.cur
      id == S.ops[k].id
      S0 == IF destroyOk THEN Forget(S, id) ELSE S
      S1 == [S0 EXCEPT
               !.clients[L.client].destroyed =
                   IF destroyOk THEN "done" ELSE "failed",
               !.instances = IF destroyOk THEN MapDelete(S.instances, id)
                             ELSE S.instances]
  IN resetClearQr(S1, L, rmOk)
resetAfterDestroy(S, L, destroyOk, rmOk) ==
  LET k == L.cur
      id == S.ops[k].id
      S1 == [Forget(S, id) EXCEPT
               !.clients[L.client].destroyed =
                   IF destroyOk THEN "done" ELSE "failed",
               !.instances = MapDelete(S.instances, id)]
  IN resetClearQr(S1, L, rmOk)

\* instanceQueue.shift()
QueuePop(q) == [entry |-> q[Len(q)], rest |-> SubSeq(q, 1, Len(q) - 1)]
QueueShift(q) == [entry |-> Head(q), rest |-> Tail(q)]

\* `while (instanceQueue.length > 0)` of processQueue, entered at its test
drainKeepsFlag(S, rmOk) ==
  IF Len(S.instanceQueue) > 0
  THEN LET sh == QueueShift(S.instanceQueue)
           k == sh.entry
       IN resetFn([S EXCEPT !.instanceQueue = sh.rest,
                            !.ops[k].fn = "running",
                            !.ops[k].gap = S.sinceDone],
                  NewLoop(k), rmOk)
  ELSE S
drain(S, rmOk) ==
  IF Len(S.instanceQueue) > 0
  THEN LET sh == QueueShift(S.instanceQueue)
           k == sh.entry
       IN resetFn([S EXCEPT !.instanceQueue = sh.rest,
                            !.ops[k].fn = "running",
                            !.ops[k].gap = S.sinceDone],
                  NewLoop(k), rmOk)
  ELSE [S EXCEPT !.queueRunning = FALSE]

\* `if (queueRunning) return;`
QueueBusy(S) == S.queueRunning

processQueue(S, rmOk) ==
  IF QueueBusy(S) THEN S
  ELSE drain([S EXCEPT !.queueRunning = TRUE], rmOk)

enqueue(S, id, r, rmOk) ==
  processQueue([S EXCEPT !.ops = Append(@, NewOp(id, r)),
                         !.instanceQueue = Append(@, Len(S.ops) + 1)],
               rmOk)

resetInstance(S, id, r, rmOk) == enqueue(S, id, r, rmOk)

\* restartInstance: `await resetInstance(id)`, later createInstance(id);
\* q is the HTTP request that awaits it (0: some other caller)
restartInstance(S, id, q, rmOk) ==
  resetInstance([S EXCEPT !.restarts =
                    Append(@, [id |-> id, stage |-> "reset", req |-> q])],
                id, Len(S.restarts) + 1, rmOk)

ResetCall(id, rmOk) ==
  /\ Len(ops) < MaxOps
  /\ Apply(resetInstance(Cur, id, 0, rmOk))

RestartCall(id, rmOk) ==
  /\ Len(ops) < MaxOps
  /\ Len(restarts) < MaxRestarts
  /\ Len(clients) + Reserved < MaxClients
  /\ Apply(restartInstance(Cur, id, 0, rmOk))

\* Where the drain loop is when enqueue is called: not running ("idle"),
\* or at one of its awaits, with the time its timer still has to run.
QueueAt(S) ==
  IF S.loops = {} THEN [pc |-> "idle", left |-> 0]
  ELSE LET L == CHOOSE M \in S.loops : TRUE
       IN [pc |-> L.pc, left |-> L.left]

\* resetInstance(id), with a note of where its enqueue found the loop
EnqueueCall(id, rmOk) ==
  /\ Len(ops) < MaxOps
  /\ Apply([resetInstance(Cur, id, 0, rmOk) EXCEPT
              !.enqueuedAt = Append(@, QueueAt(Cur))])

Without(L) == [Cur EXCEPT !.loops = @ \ {L}]

DestroyDone(L, destroyOk, rmOk) ==
  /\ L.pc = "destroy"
  /\ Apply(resetAfterDestroy(Without(L), L, destroyOk, rmOk))

RetryDelayDone(L, rmOk) ==
  /\ L.pc = "retry" /\ L.left = 0
  /\ Apply(resetRemove(Without(L), L, rmOk))

CooldownDone(L, rmOk) ==
  /\ L.pc = "cooldown" /\ L.left = 0
  /\ Apply(drain(Without(L), rmOk))

\* ------------------------------------------------------------- the clock
Elapse(t) == Max(0, t - TickMs)

Tick ==
  /\ loops' = {[L EXCEPT !.left = Elapse(L.left)] : L \in loops}
  /\ sinceDone' = Min(CooldownMs, sinceDone + TickMs)
  /\ rm' = [rm EXCEPT !.left = Elapse(rm.left),
                      !.elapsed = Min(rm.delayMs, rm.elapsed + TickMs)]
  /\ UNCHANGED <<instances, qrCodes, instanceQueue, queueRunning, clients,
                 ops, restarts, reqs, lastCall, initCount, retHandles,
                 unhandled, logouts, disk, host, admission, lastScan,
                 enqueuedAt>>

\* ------------------------------------------ synchronous calls of the API
\* getStatus: (id) => { client = instances.get(id);
\*                      return client ? client.info?.status : null }
getStatusUnchecked(S, id) ==
  LET client == MapGet(S.instances, id)
  IN IF client = NoClient THEN "TypeError"
     ELSE IF S.clients[client].info = {} THEN Undefined
     ELSE Prop(CHOOSE i \in S.clients[client].info : TRUE, "status")
getStatus(S, id) ==
  LET client == MapGet(S.instances, id)
  IN IF client = NoClient THEN Null
     ELSE IF S.clients[client].info = {} THEN Undefined
     ELSE Prop(CHOOSE i \in S.clients[client].info : TRUE, "status")

\* getInfo: async (id) => instances.get(id)?.info || {}
getInfo(S, id) ==
  LET client == MapGet(S.instances, id)
  IN IF client = NoClient THEN EmptyObject
     ELSE IF S.clients[client].info = {} THEN EmptyObject
     ELSE CHOOSE i \in S.clients[client].info : TRUE

\* deleteInstance: destroy() is called and not awaited
deleteInstance(S, id) ==
  IF MapHas(S.instances, id)
  THEN LET client == MapGet(S.instances, id)
       IN [Deregister(S, id) EXCEPT
             !.clients[client].destroyed = "requested",
             !.lastCall.result = "true"]
  ELSE [S EXCEPT !.lastCall.result = "false"]

Called(op, id) == [op |-> op, id |-> id, present |-> MapHas(instances, id),
                   result |-> Undefined, changed |-> FALSE]

GetStatusCall(id) ==
  Apply([Cur EXCEPT !.lastCall = [Called("getStatus", id) EXCEPT
                                    !.result = getStatus(Cur, id)]])

GetInfoCall(id) ==
  Apply([Cur EXCEPT !.lastCall = [Called("getInfo", id) EXCEPT
                                    !.result = getInfo(Cur, id)]])

DeleteCall(id) ==
  \E T \in {deleteInstance([Cur EXCEPT
                              !.lastCall = Called("deleteInstance", id)],
                           id)} :
     Apply([T EXCEPT !.lastCall.changed =
                        T.instances # instances \/ T.qrCodes # qrCodes])

\* client.destroy() of deleteInstance settles.  The call was not awaited
\* and got no catch: a rejection is handled by nobody.
DeleteDestroySettled(c, ok) ==
  /\ clients[c].destroyed = "requested"
  /\ ~\E L \in loops : L.pc = "destroy" /\ L.client = c
  /\ Apply([Cur EXCEPT
              !.clients[c].destroyed = IF ok THEN "done" ELSE "failed",
              !.unhandled = IF ok THEN @ ELSE @ + 1])

\* -------------------------------------------------------- logoutInstance
NewLogout(id, client) ==
  [id |-> id, client |-> client, stage |-> "awaiting", absent |-> FALSE]

\* instances.delete(id); qrCodes.delete(id); and the return
logoutDeregister(S, k) ==
  LET id == S.logouts[k].id
      S1 == Deregister(S, id)
  IN [S1 EXCEPT !.logouts[k].stage = "returned",
                !.logouts[k].absent = ~MapHas(S1.instances, id)
                                      /\ ~MapHas(S1.qrCodes, id)]

\* logoutInstance(id) up to `await client.logout()`, which is reached
\* only when id has a client
logoutInstance(S, id) ==
  LET client == MapGet(S.instances, id)
      k == Len(S.logouts) + 1
      S1 == [S EXCEPT !.logouts = Append(@, NewLogout(id, client))]
  IN IF client # NoClient THEN S1 ELSE logoutDeregister(S1, k)

LogoutCall(id) ==
  /\ Len(logouts) < MaxLogouts
  /\ Apply(logoutInstance(Cur, id))

\* client.logout() has settled: a rejection leaves logoutInstance at the
\* await, before the two deletes
LogoutSettled(k, ok) ==
  /\ logouts[k].stage = "awaiting"
  /\ IF ok THEN Apply(logoutDeregister(Cur, k))
     ELSE Apply([Cur EXCEPT
                   !.logouts[k].stage = "threw",
                   !.logouts[k].absent =
                      ~MapHas(instances, logouts[k].id)
                      /\ ~MapHas(qrCodes, logouts[k].id)])

\* -------------------------------------------------- resource monitoring
DefaultMaxCpu == 80          \* canCreateInstance default maxCpu
DefaultMaxRamPercent == 80   \* canCreateInstance default maxRamPercent

\* what os.cpuUsage hands to its callback, times 100, and os.freemem()
CpuSamples == {50, 80, 81, 90}
FreeSamples == {100, 40, 39, 20, 30, 29}
Thresholds == {DefaultMaxCpu, 50}

\* usedRamPercent > limit, for usedRamPercent = (totalMem - freeMem) /
\* totalMem * 100, without rounding the quotient
UsedRamOver(totalMem, freeMem, limit) ==
  (totalMem - freeMem) * 100 > limit * totalMem

\* resolve(!(cpuPercent * 100 > maxCpu || usedRamPercent > maxRamPercent))
canCreateInstance(cpu, totalMem, freeMem, maxCpu, maxRamPercent) ==
  ~(cpu > maxCpu \/ UsedRamOver(totalMem, freeMem, maxRamPercent))

\* the load of the host changes
HostChange(cpu, freeMem) ==
  /\ host # [cpu |-> cpu, freeMem |-> freeMem]
  /\ Apply([Cur EXCEPT !.host = [cpu |-> cpu, freeMem |-> freeMem]])

\* canCreateInstance(maxCpu, maxRamPercent) up to os.cpuUsage(callback)
CanCreateCall(maxCpu, maxRamPercent) ==
  /\ admission.pc # "sampling"
  /\ Apply([Cur EXCEPT !.admission =
              [NoAdmission EXCEPT !.pc = "sampling", !.maxCpu = maxCpu,
                                  !.maxRamPercent = maxRamPercent]])

\* the callback of os.cpuUsage: it samples the memory and resolves
CpuUsageCallback ==
  /\ admission.pc = "sampling"
  /\ Apply([Cur EXCEPT !.admission =
              [admission EXCEPT
                 !.pc = "done", !.cpu = host.cpu, !.freeMem = host.freeMem,
                 !.result =
                    IF canCreateInstance(host.cpu, TotalMem, host.freeMem,
                                         admission.maxCpu,
                                         admission.maxRamPercent)
                    THEN "true" ELSE "false"]])

\* ------------------------------------------------------- memory cleanup
HighWaterMark == 85   \* if (usedRamPercent > 85)

\* client.info?.wid is truthy
HasWid(info) ==
  info # {} /\ Prop(CHOOSE i \in info : TRUE, "wid") # Undefined

\* the ids that instances.entries() yields with a client without wid
IdleIds(S) ==
  {id \in Ids : MapHas(S.instances, id)
                 /\ ~HasWid(S.clients[MapGet(S.instances, id)].info)}

\* the orders in which instances.entries() may yield its keys (the
\* order of insertion, which the model of the Map does not keep)
EntriesOrders(S) ==
  LET keys == {id \in Ids : MapHas(S.instances, id)}
  IN {o \in [1..Cardinality(keys) -> keys] :
        \A i, j \in DOMAIN o : i # j => o[i] # o[j]}

\* usedRamPercent > 85
ScanOverAtMark(freeMem) ==
  UsedRamOver(TotalMem, freeMem, HighWaterMark)
  \/ (TotalMem - freeMem) * 100 = HighWaterMark * TotalMem
ScanOver(freeMem) == UsedRamOver(TotalMem, freeMem, HighWaterMark)

\* for (const [id, client] of instances.entries())
\*   if (!client.info?.wid) resetInstance(id);
RECURSIVE cleanEntries(_, _, _, _)
cleanEntries(S, order, i, rmOk) ==
  IF i > Len(order) THEN S
  ELSE LET id == order[i]
           client == MapGet(S.instances, id)
           S1 == IF client # NoClient /\ ~HasWid(S.clients[client].info)
                 THEN resetInstance(S, id, 0, rmOk)
                 ELSE S
       IN cleanEntries(S1, order, i + 1, rmOk)

\* the callback of setInterval
memoryCleanup(S, order, rmOk) ==
  LET S1 == IF ScanOver(S.host.freeMem)
            THEN cleanEntries(S, order, 1, rmOk)
            ELSE S
  IN [S1 EXCEPT !.lastScan =
        [n |-> S.lastScan.n + 1, freeMem |-> S.host.freeMem,
         idle |-> IdleIds(S),
         withWid |-> {id \in Ids : MapHas(S.instances, id)} \ IdleIds(S),
         reset |-> {S1.ops[k].id : k \in (Len(S.ops) + 1)..Len(S1.ops)},
         count |-> Len(S1.ops) - Len(S.ops)]]

ScanCall(order, rmOk) ==
  /\ lastScan.n < MaxScans
  /\ Len(ops) + Len(order) <= MaxOps
  /\ Apply(memoryCleanup(Cur, order, rmOk))

\* ------------------------------------------------------- the send routes
Lower(w) ==
  CASE w = "Protocol" -> "protocol"
    [] w = "Target" -> "target"
    [] w = "Browser" -> "browser"
    [] w = "Error" -> "error"
    [] OTHER -> w

\* the messages client.sendMessage may reject with, word by word
ErrorMessages ==
  { <<"Protocol", "error", "(Runtime.callFunctionOn)">>,
    <<"Evaluation", "failed", "Target", "closed">>,
    <<"protocol", "Error">>,
    <<"Evaluation", "failed">> }

Phrases == { <<"target", "closed">>, <<"browser", "disconnected">>,
             <<"protocol", "error">> }

\* String(error.message).match(/Target closed|Browser disconnected|Protocol error/i)
IsTransportError(msg) ==
  \E i \in 1..(Len(msg) - 1) :
     <<Lower(msg[i]), Lower(msg[i + 1])>> \in Phrases

Reply(status, error, details) ==
  [status |-> status, error |-> error, details |-> details]

NewReq(route, id, client) ==
  [route |-> route, id |-> id, client |-> client, err |-> << >>,
   stage |-> IF client = NoClient THEN "done" ELSE "sending",
   reply |-> IF client = NoClient
             THEN Reply(404, "Instance not found or not connected", Undefined)
             ELSE Reply(0, Undefined, Undefined)]

\* POST /send/:id and POST /send-media/:id with a well-formed body, up to
\* `await client.sendMessage(...)`
SendCall(route, id) ==
  /\ Len(reqs) < MaxReqs
  /\ route = "send-media" =>
        /\ Len(ops) < MaxOps /\ Len(restarts) < MaxRestarts
        /\ Len(clients) + Reserved < MaxClients
  /\ Apply([Cur EXCEPT !.reqs = Append(@, NewReq(route, id,
                                                 MapGet(instances, id)))])

\* POST /send/:id once sendMessage has settled (msg empty: it resolved)
sendText(S, q, msg, rmOk) ==
  IF msg = << >>
  THEN [S EXCEPT !.reqs[q].stage = "done",
                 !.reqs[q].reply = Reply(200, Undefined, Undefined)]
  ELSE [S EXCEPT !.reqs[q].stage = "done", !.reqs[q].err = msg,
                 !.reqs[q].reply = Reply(500, "Failed to send message", msg)]

\* POST /send-media/:id once sendMessage has settled
sendMedia(S, q, msg, rmOk) ==
  IF msg = << >>
  THEN [S EXCEPT !.reqs[q].stage = "done",
                 !.reqs[q].reply = Reply(200, Undefined, Undefined)]
  ELSE IF IsTransportError(msg)
  THEN restartInstance([S EXCEPT !.reqs[q].stage = "restarting",
                                 !.reqs[q].err = msg],
                       S.reqs[q].id, q, rmOk)
  ELSE [S EXCEPT !.reqs[q].stage = "done", !.reqs[q].err = msg,
                 !.reqs[q].reply = Reply(500, "Failed to send media", msg)]

SendSettled(q, msg, rmOk) ==
  /\ reqs[q].stage = "sending"
  /\ IF reqs[q].route = "send"
     THEN Apply(sendText(Cur, q, msg, rmOk))
     ELSE Apply(sendMedia(Cur, q, msg, rmOk))

\* ------------------------- removeFolderWithRetries called on its own
Delays == {TickMs * i : i \in 0..MaxDelayTicks}

RmInputs ==
  {[NoRm EXCEPT !.pc = "call", !.maxRetries = m, !.delayMs = d] :
     m \in 0..MaxRetriesBound, d \in Delays}

\* one pass of the loop, at the call or when delay(delayMs) has expired
RmPass(ok) ==
  /\ rm.pc = "call" \/ (rm.pc = "await" /\ rm.left = 0)
  /\ LET res == removeFolderWithRetries(rm.attempts, rm.maxRetries, ok)
         n == IF res.tried THEN 1 ELSE 0
     IN rm' = [rm EXCEPT
                 !.pc = IF res.ret = "await" THEN "await" ELSE "done",
                 !.attempts = res.attempts,
                 !.left = IF res.ret = "await" THEN rm.delayMs ELSE 0,
                 !.elapsed = 0,
                 !.spaced = @ /\ (rm.pc = "await" =>
                                    rm.elapsed >= rm.delayMs),
                 !.tries = @ + n,
                 !.lastOk = res.tried /\ ok,
                 !.result = IF res.ret = "await" THEN Undefined
                            ELSE res.ret]
  /\ UNCHANGED <<instances, qrCodes, instanceQueue, queueRunning, clients,
                 ops, loops, restarts, reqs, lastCall, sinceDone, initCount,
                 retHandles, unhandled, logouts, disk, host, admission,
                 lastScan, enqueuedAt>>

\* The queued operations, their restarts' createInstance and the clock.
Next ==
  \/ \E c \in Indices(clients), ok \in BOOLEAN : InitializeDone(c, ok)
  \/ \E id \in Ids \cup {Undefined}, rmOk \in BOOLEAN : ResetCall(id, rmOk)
  \/ \E id \in Ids, rmOk \in BOOLEAN : RestartCall(id, rmOk)
  \/ \E L \in loops, dOk \in BOOLEAN, rmOk \in BOOLEAN :
        DestroyDone(L, dOk, rmOk)
  \/ \E L \in loops, rmOk \in BOOLEAN : RetryDelayDone(L, rmOk)
  \/ \E L \in loops, rmOk \in BOOLEAN : CooldownDone(L, rmOk)
  \/ Tick

Spec == Init /\ [][Next]_vars

\* The queue alone: resets of a registered id, of an absent one and of a
\* non-string one, enqueued at any moment of the drain loop.  The id is
\* created once and the directory removal succeeds at its first attempt.
DestroyStep == \E L \in loops, dOk \in BOOLEAN : DestroyDone(L, dOk, TRUE)
CooldownStep == \E L \in loops : CooldownDone(L, TRUE)

NextQueue ==
  \/ \E id \in {"a"} :
        (\A c \in Indices(clients) : clients[c].id # id) /\ CreateCall(id)
  \/ \E c \in Indices(clients), ok \in BOOLEAN : InitializeDone(c, ok)
  \/ \E id \in {"a", Undefined} : EnqueueCall(id, TRUE)
  \/ DestroyStep
  \/ CooldownStep
  \/ Tick

\* Timers fire (delay(500)) and client.destroy() settles: the queued
\* function finishes.
QueueFairness ==
  /\ WF_vars(DestroyStep)
  /\ WF_vars(CooldownStep)
  /\ WF_vars(Tick)

SpecQueue == Init /\ [][NextQueue]_vars /\ QueueFairness

\* resetInstance of one id against createInstance and the client's 'qr'
\* event for the same id.
NextReset ==
  \/ \E id \in {"a"} : CreateCall(id)
  \/ \E c \in Indices(clients), ok \in BOOLEAN : InitializeDone(c, ok)
  \/ \E c \in Indices(clients) : EvQr(c)
  \/ \E id \in {"a"}, rmOk \in BOOLEAN :
        Len(ops) < MaxResets /\ ResetCall(id, rmOk)
  \/ \E L \in loops, dOk \in BOOLEAN, rmOk \in BOOLEAN :
        DestroyDone(L, dOk, rmOk)
  \/ \E L \in loops, rmOk \in BOOLEAN : RetryDelayDone(L, rmOk)
  \/ \E L \in loops, rmOk \in BOOLEAN : CooldownDone(L, rmOk)
  \/ Tick

SpecReset == Init /\ [][NextReset]_vars

\* The client's events and the synchronous calls.
NextStatus ==
  \/ \E id \in Ids : CreateCall(id)
  \/ \E c \in Indices(clients), ok \in BOOLEAN : InitializeDone(c, ok)
  \/ \E c \in Indices(clients) : EvQr(c)
  \/ \E c \in Indices(clients) : EvAuthenticated(c)
  \/ \E c \in Indices(clients) : EvReady(c)
  \/ \E c \in Indices(clients) : EvDisconnected(c)
  \/ \E c \in Indices(clients) : EvAuthFailure(c)
  \/ \E id \in Strings : GetStatusCall(id)
  \/ \E id \in Strings : GetInfoCall(id)
  \/ \E id \in Strings : DeleteCall(id)

SpecStatus == Init /\ [][NextStatus]_vars

\* The synchronous calls on an id that comes and goes and on one that is
\* never created.
NextMiss ==
  \/ \E id \in {"a"} : CreateCall(id)
  \/ \E c \in Indices(clients), ok \in BOOLEAN : InitializeDone(c, ok)
  \/ \E c \in Indices(clients) : EvQr(c)
  \/ \E c \in Indices(clients) : EvDisconnected(c)
  \/ \E id \in {"a", Ghost} : GetStatusCall(id)
  \/ \E id \in {"a", Ghost} : GetInfoCall(id)
  \/ \E id \in {"a", Ghost} : DeleteCall(id)

SpecMiss == Init /\ [][NextMiss]_vars

\* deleteInstance with the teardown it requests.
NextDelete ==
  \/ \E id \in Ids : CreateCall(id)
  \/ \E c \in Indices(clients), ok \in BOOLEAN : InitializeDone(c, ok)
  \/ \E c \in Indices(clients) : EvQr(c)
  \/ \E id \in Strings : DeleteCall(id)
  \/ \E c \in Indices(clients), ok \in BOOLEAN : DeleteDestroySettled(c, ok)

SpecDelete == Init /\ [][NextDelete]_vars

\* The resource monitor next to createInstance.
NextAdmit ==
  \/ \E cpu \in CpuSamples, freeMem \in FreeSamples : HostChange(cpu, freeMem)
  \/ \E maxCpu \in Thresholds, maxRamPercent \in Thresholds :
        CanCreateCall(maxCpu, maxRamPercent)
  \/ CpuUsageCallback
  \/ \E id \in {"a"} : CreateCall(id)
  \/ \E c \in Indices(clients), ok \in BOOLEAN : InitializeDone(c, ok)

SpecAdmit == Init /\ [][NextAdmit]_vars

\* logoutInstance against createInstance and the client's events.
NextLogout ==
  \/ \E id \in Ids : CreateCall(id)
  \/ \E c \in Indices(clients), ok \in BOOLEAN : InitializeDone(c, ok)
  \/ \E c \in Indices(clients) : EvQr(c)
  \/ \E c \in Indices(clients) : EvDisconnected(c)
  \/ \E id \in Strings : LogoutCall(id)
  \/ \E k \in Indices(logouts), ok \in BOOLEAN : LogoutSettled(k, ok)

SpecLogout == Init /\ [][NextLogout]_vars

\* The memory cleanup interval over instances that become ready or stay
\* idle, with the resets it queues; every id is created once.
NextScan ==
  \/ \E id \in Ids :
        (\A c \in Indices(clients) : clients[c].id # id) /\ CreateCall(id)
  \/ \E c \in Indices(clients), ok \in BOOLEAN : InitializeDone(c, ok)
  \/ \E c \in Indices(clients) : EvAuthenticated(c)
  \/ \E c \in Indices(clients) : EvReady(c)
  \/ \E freeMem \in {30, 29} : HostChange(host.cpu, freeMem)
  \/ \E order \in EntriesOrders(Cur) : ScanCall(order, TRUE)
  \/ \E L \in loops, dOk \in BOOLEAN, rmOk \in BOOLEAN :
        DestroyDone(L, dOk, rmOk)
  \/ \E L \in loops, rmOk \in BOOLEAN : RetryDelayDone(L, rmOk)
  \/ \E L \in loops, rmOk \in BOOLEAN : CooldownDone(L, rmOk)
  \/ Tick

SpecScan == Init /\ [][NextScan]_vars

\* The send routes, with the restart they may start.
NextSend ==
  \/ \E id \in Ids : CreateCall(id)
  \/ \E c \in Indices(clients), ok \in BOOLEAN : InitializeDone(c, ok)
  \/ \E route \in {"send", "send-media"}, id \in Ids : SendCall(route, id)
  \/ \E q \in Indices(reqs), msg \in ErrorMessages \cup {<< >>},
        rmOk \in BOOLEAN : SendSettled(q, msg, rmOk)
  \/ \E L \in loops, dOk \in BOOLEAN, rmOk \in BOOLEAN :
        DestroyDone(L, dOk, rmOk)
  \/ \E L \in loops, rmOk \in BOOLEAN : RetryDelayDone(L, rmOk)
  \/ \E L \in loops, rmOk \in BOOLEAN : CooldownDone(L, rmOk)
  \/ Tick

SpecSend == Init /\ [][NextSend]_vars

\* removeFolderWithRetries on every input within the bounds.
InitRemove ==
  /\ instances = [i \in Ids |-> NoClient]
  /\ qrCodes = [i \in Ids |-> NoClient]
  /\ instanceQueue = << >>
  /\ queueRunning = FALSE
  /\ clients = << >>
  /\ ops = << >>
  /\ loops = {}
  /\ restarts = << >>
  /\ reqs = << >>
  /\ lastCall = NoCall
  /\ rm \in RmInputs
  /\ sinceDone = CooldownMs
  /\ initCount = [i \in Ids |-> 0]
  /\ retHandles = [i \in Ids |-> {}]
  /\ unhandled = 0
  /\ logouts = << >>
  /\ disk = InitDisk
  /\ host = InitHost
  /\ admission = NoAdmission
  /\ lastScan = NoScan
  /\ enqueuedAt = << >>

NextRemove ==
  \/ \E ok \in BOOLEAN : RmPass(ok)
  \/ Tick

SpecRemove == InitRemove /\ [][NextRemove]_vars

\* ------------------------------------------------------------------ claims
FnOver(k) == ops[k].fn \in {"returned", "threw"}

\* C1: two createInstance(id) calls with no removal of id in between return
\* the same handle, and initialize() is started at most once for them.
C1_IdempotentCreate ==
  \A id \in Ids : initCount[id] <= 1 /\ Cardinality(retHandles[id]) <= 1

\* C2: operations run in the order of their enqueue calls, each one's
\* function having finished before the next one's is started; never two
\* functions executing at once; at most one drain loop.
C2_QueueOrder ==
  /\ \A i, j \in Indices(ops) :
        i < j /\ ops[j].fn # "queued" => FnOver(i)
  /\ Cardinality({k \in Indices(ops) : ops[k].fn = "running"}) <= 1
  /\ Cardinality(loops) <= 1

C2_Witness ==
  /\ Len(ops) = 3
  /\ FnOver(1) /\ ops[2].fn = "running" /\ ops[3].fn = "queued"
  /\ ops[1].id # ops[2].id /\ ops[2].id = ops[3].id

\* C3: while the create step of a restartInstance(id) is in progress, no
\* other queued operation on id is executing (restart is one queued unit).
C3_RestartAtomic ==
  \A r \in Indices(restarts) : \A k \in Indices(ops) :
     restarts[r].stage = "create" /\ ops[k].id = restarts[r].id
        /\ ops[k].restart # r
     => ops[k].fn # "running"

\* C4 as claimed: when the promise of resetInstance(id) settles, id is in
\* neither map, whatever ran concurrently.
C4_ResetLeavesAbsent ==
  \A k \in Indices(ops) : ops[k].promise # "pending" => ops[k].absent

\* C4 as amended: when the promise of resetInstance(id) settles, id is in
\* neither map, whether or not destroy() or the directory removal
\* succeeded, provided no createInstance(id) finished and no 'qr' event of
\* id was handled after the reset cleared the maps.
C4_ResetLeavesAbsentUndisturbed ==
  \A k \in Indices(ops) :
     ops[k].promise # "pending" /\ ~ops[k].disturbed => ops[k].absent

C4_Witness ==
  \E L \in loops :
     /\ L.pc = "cooldown" /\ L.client # NoClient /\ ~L.removed
     /\ clients[L.client].destroyed = "failed"
     /\ ops[L.cur].absent /\ ~ops[L.cur].disturbed
     /\ \E c \in Indices(clients) :
           clients[c].id = ops[L.cur].id /\ clients[c].init = "pending"

\* C5: a promise is rejected exactly when its own function threw, and
\* the drain loop never stops while operations are queued or unsettled.
C5_FailureIsolation ==
  /\ \A k \in Indices(ops) :
        /\ ops[k].promise = "rejected" <=> ops[k].fn = "threw"
        /\ ops[k].promise = "resolved" <=> ops[k].fn = "returned"
        /\ ops[k].fn = "threw" <=> (FnOver(k) /\ PathJoinThrows(ops[k].id))
  /\ loops = {} =>
        /\ instanceQueue = << >>
        /\ \A k \in Indices(ops) : ops[k].promise # "pending"

C5_Witness ==
  /\ Len(ops) = 3
  /\ ops[1].promise = "rejected"
  /\ ops[2].promise = "resolved" /\ ops[3].promise = "resolved"
  /\ loops = {}

\* C6: a queued function starts at least the cooldown (500 ms) after the
\* function before it finished, whether that one returned or threw.
C6_Cooldown ==
  \A k \in Indices(ops) :
     k > 1 /\ ops[k].fn # "queued" => ops[k].gap >= CooldownMs

C6_Witness ==
  /\ Len(ops) >= 2
  /\ ops[1].fn = "threw" /\ ops[2].fn = "running"
  /\ ops[2].gap >= CooldownMs

\* C7: a send (text or media) that fails with a transport error starts
\* exactly one restartInstance(id), and its caller gets the 'instance
\* restarted, please retry' reply, not the raw error text.
RestartsFor(q) ==
  Cardinality({r \in Indices(restarts) : restarts[r].req = q})

C9_BoundedRetries ==
  /\ rm.tries <= rm.maxRetries
  /\ rm.spaced
  /\ rm.pc = "await" => rm.tries < rm.maxRetries /\ ~rm.lastOk
  /\ rm.pc = "done" => rm.result \in {"true", "false"}
  /\ rm.lastOk <=> (rm.pc = "done" /\ rm.result = "true")
  /\ rm.pc = "done" /\ rm.result = "false" => rm.tries = rm.maxRetries

C9_Witness ==
  /\ rm.pc = "done" /\ rm.result = "true" /\ rm.tries = 3
  /\ rm.maxRetries = DefaultMaxRetries /\ rm.delayMs = DefaultDelayMs

\* C10: on an id that is not in the registry getStatus returns null,
\* getInfo returns {}, deleteInstance returns false; none throws and
\* neither map changes.
C10_UnknownIdMiss ==
  lastCall.op # "none" /\ ~lastCall.present =>
    /\ ~lastCall.changed
    /\ lastCall.op = "getStatus" => lastCall.result = Null
    /\ lastCall.op = "getInfo" => lastCall.result = EmptyObject
    /\ lastCall.op = "deleteInstance" => lastCall.result = "false"

C10_Witness ==
  /\ lastCall.op = "getStatus" /\ lastCall.id = "a" /\ ~lastCall.present
  /\ lastCall.result = Null
  /\ \E c \in Indices(clients) :
        clients[c].id = "a" /\ clients[c].lib = "closed"

\* C11: deleteInstance(id) on a present id removes id from both maps in
\* the same synchronous step and returns true, and a failing destroy()
\* never becomes an unhandled rejection.
C11_DeleteBestEffort ==
  [][/\ (lastCall' # lastCall /\ lastCall'.op = "deleteInstance"
           /\ lastCall'.present)
        => /\ lastCall'.result = "true"
           /\ instances'[lastCall'.id] = NoClient
           /\ qrCodes'[lastCall'.id] = NoClient
     /\ unhandled' = 0]_vars

\* C12: while the host is over the admission thresholds (canCreateInstance
\* with its defaults would answer false), no createInstance constructs and
\* initializes a client.
C12_AdmissionEnforced ==
  [][~canCreateInstance(host.cpu, TotalMem, host.freeMem, DefaultMaxCpu,
                        DefaultMaxRamPercent)
       => Len(clients') = Len(clients)]_vars

\* C13: canCreateInstance answers true only if the CPU percentage is under
\* maxCpu and the used-RAM percentage is under maxRamPercent (a sample
\* equal to its threshold is not under it); CPU 90 with RAM 50 against
\* 80/80 gives false, CPU 50 with RAM 50 gives true.
C13_AdmissionThresholds ==
  admission.pc = "done" =>
    /\ admission.result = "true" =>
          /\ admission.cpu < admission.maxCpu
          /\ (TotalMem - admission.freeMem) * 100
                < admission.maxRamPercent * TotalMem
    /\ (admission.maxCpu = 80 /\ admission.maxRamPercent = 80
          /\ admission.freeMem = 100) =>
          /\ admission.cpu = 90 => admission.result = "false"
          /\ admission.cpu = 50 => admission.result = "true"

\* C14: when initialize() throws, createInstance returns with id in
\* neither map.
C14_InitFailureDeregisters ==
  [][\A c \in Indices(clients) :
       clients[c].init = "pending" /\ clients'[c].init = "threw"
       => /\ instances'[clients[c].id] = NoClient
          /\ qrCodes'[clients[c].id] = NoClient]_vars

\* C15: while initialize() of a new handle is in progress, the handle is
\* already the registered one of its id.
C15_RegisteredWhileInitializing ==
  \A c \in Indices(clients) :
     clients[c].init = "pending" => instances[clients[c].id] = c

\* C16: once 'disconnected' or 'auth_failure' of a client has been
\* handled, that client is not registered (again) and its qr is not
\* stored, also when the event came while initialize() was awaited.
C16_ClosedStaysAbsent ==
  \A c \in Indices(clients) :
     clients[c].lib = "closed"
     => /\ instances[clients[c].id] # c
        /\ qrCodes[clients[c].id] # c

\* C17: an id whose registered instance is ready has no entry in qrCodes,
\* and no entry of a client that has disconnected.
C17_QrLifetime ==
  \A c \in Indices(clients) :
     /\ clients[c].lib = "ready" /\ instances[clients[c].id] = c
          => qrCodes[clients[c].id] = NoClient
     /\ clients[c].lib = "closed" => qrCodes[clients[c].id] # c

\* C18: when logoutInstance(id) on a present id finishes, id is in neither
\* map, whether client.logout() succeeded or failed.
C18_LogoutBestEffort ==
  \A k \in Indices(logouts) :
     logouts[k].client # NoClient /\ logouts[k].stage # "awaiting"
     => logouts[k].absent

\* C19: when a resetInstance(id) whose directory removal succeeded
\* returns, the session directory that createInstance(id) binds its
\* client to does not exist.
C19_ResetRemovesSession ==
  [][\A k \in Indices(ops) :
       /\ ops[k].fn = "running" /\ ops'[k].fn = "returned"
       /\ ops[k].id \in Ids
       /\ \E L \in loops' : L.cur = k /\ L.removed
       => SessionDir(ops[k].id) \notin disk']_vars

\* C20: a scan queues a reset for exactly the registered instances
\* without info.wid when used RAM is over 85 %, one reset each, none for
\* an instance with info.wid, and nothing when used RAM is at or below
\* 85 %.
C20_Shedding ==
  lastScan.n > 0 =>
    /\ lastScan.reset =
          IF (TotalMem - lastScan.freeMem) * 100 > 85 * TotalMem
          THEN lastScan.idle ELSE {}
    /\ lastScan.count = Cardinality(lastScan.reset)
    /\ lastScan.reset \cap lastScan.withWid = {}

C20_Witness ==
  /\ lastScan.n > 0
  /\ (TotalMem - lastScan.freeMem) * 200 = 171 * TotalMem
  /\ lastScan.idle # {} /\ lastScan.withWid # {}
  /\ lastScan.reset = lastScan.idle

\* C21: if every queued function finishes, every operation passed to
\* enqueue is executed and its promise settled, also when it was enqueued
\* during the cooldown delay or when that delay had just run out; while
\* the queue is non-empty a drain loop is active, and queueRunning is false
\* once the queue is empty and no loop is left.
QueueAwake ==
  /\ instanceQueue # << >> => loops # {} /\ queueRunning
  /\ loops = {} => ~queueRunning

Settled(k) == FnOver(k) /\ ops[k].promise # "pending"

\* Operations are never taken back and a settled one stays settled, so
\* each is settled in the end exactly if, again and again, all are.
C21_QueueLiveness ==
  /\ []QueueAwake
  /\ []<>(\A k \in Indices(ops) : Settled(k))

C21_Witness ==
  /\ loops = {} /\ ~queueRunning /\ instanceQueue = << >>
  /\ \A k \in Indices(ops) : Settled(k)
  /\ \E j, k \in Indices(enqueuedAt) :
        /\ enqueuedAt[j] = [pc |-> "cooldown", left |-> 0]
        /\ enqueuedAt[k] = [pc |-> "cooldown", left |-> CooldownMs]

\* C22: every client whose initialize() has settled is the handle
\* registered for its id, or has had destroy() or logout() requested on
\* it, or has emitted 'disconnected' or 'auth_failure'.
TornDown(c) ==
  \/ clients[c].destroyed # "no"
  \/ clients[c].lib = "closed"
  \/ \E k \in Indices(logouts) : logouts[k].client = c

C22_NoLeakedHandles ==
  \A c \in Indices(clients) :
     clients[c].init # "pending" =>
        instances[clients[c].id] = c \/ TornDown(c)

\* C23: an event ('qr', 'disconnected', 'auth_failure') of a client that
\* was deleted or reset and is not the handle registered for its id leaves
\* the registered handle of that id and its qrCodes entry as they are.
C23_StaleEventsIgnored ==
  [][\A c \in Indices(clients) :
       LET id == clients[c].id
           h == instances[id]
       IN /\ Len(clients') = Len(clients)
          /\ clients'[c].lib # clients[c].lib
          /\ clients[c].destroyed # "no"
          /\ h # NoClient /\ h # c
          => instances'[id] = h /\ qrCodes'[id] = qrCodes[id]]_vars

====
